---- MODULE Spec2Model ----
(***************************************************************************)
(* Model of the scrape orchestration of bluray-tracker:                    *)
(*   Scheduler::runOnce / process_item / scrapeProduct / updateWishlistItem *)
(*   (src/src/application/scheduler.cpp) and                                *)
(*   ChangeDetector::detectChanges / notifyObservers                        *)
(*   (src/src/domain/change_detector.hpp).                                  *)
(* Prices are counted in cents, so the epsilon 0.01 is one cent.            *)
(***************************************************************************)
EXTENDS Integers, Sequences, FiniteSets, TLC

VARIABLES
    is_running_,        \* Scheduler::is_running_      (atomic<bool>)
    scrape_total_,      \* Scheduler::scrape_total_    (atomic<int>)
    scrape_processed_,  \* Scheduler::scrape_processed_(atomic<int>)
    observers_,         \* ChangeDetector::observers_  (registered sinks, in order)
    offered,            \* sinks already handed to addNotifier
    wishlist,           \* the wishlist table: id -> row
    price_history,      \* the price_history table: wishlist id -> rows in insertion order
    shop,               \* what the shops can answer to a fetch (external world)
    faults,             \* remaining failures the environment may inject
    requests,           \* remaining runOnce() invocations the callers may make
    configured,         \* sinks whose isConfigured() answers true
    delay_seconds_,     \* Scheduler::delay_seconds_ (read from the configuration)
    slept,              \* per caller: milliseconds of the last throttle sleep
    pc,                 \* per caller: position inside runOnce
    wishlist_items,     \* per caller: runOnce local, result of findAll
    loop_i,             \* per caller: runOnce local, loop index i
    futures,            \* per caller: runOnce local, in-flight futures (item indexes)
    processed_count,    \* per caller: runOnce local atomic
    success_count,      \* per caller: runOnce local atomic
    error_count,        \* per caller: runOnce local atomic
    ret,                \* per caller: value returned by the last runOnce call
    task,               \* per caller, per item index: the std::async task
    h_old, h_new,       \* detectChanges call under test: its two arguments
    h_out,              \* detectChanges call under test: its outcome
    h_log,              \* detectChanges calls made on the detector, in order
    edits,              \* remaining wishlist API calls the user may make
    progress,           \* a poller's getScrapeProgress call: position and values read
    put,                \* a PUT /api/wishlist/<id> request: position, id and item
    alerts              \* per wishlist id: fetches above the threshold and
                        \* threshold notifications handed to a sink, in order

vars == <<is_running_, scrape_total_, scrape_processed_, observers_, offered,
          wishlist, price_history, shop, faults, requests, configured,
          delay_seconds_, slept, pc, wishlist_items,
          loop_i, futures, processed_count, success_count, error_count, ret,
          task, h_old, h_new, h_out, h_log, edits, progress, put, alerts>>

----------------------------------------------------------------------------
(* Bounds *)

MaxPrice    == 4    \* prices and thresholds range over 0..MaxPrice cents
NumSinks    == 2    \* notifier objects that exist
NumCallers  == 2    \* threads that may call runOnce concurrently
MaxItems    == 2    \* rows of the wishlist table in the general specification
WindowItems == 5    \* rows of the wishlist table in the window specification
MaxCalls    == 2    \* runOnce invocations per behaviour
MaxFaults   == 1    \* injected failures per behaviour
ThrottleItems == 10 \* rows of the wishlist table in the throttle specification
MaxLog      == 3    \* detectChanges calls per behaviour of the purity specification

(* Program constants *)

kConcurrency == 4

Prices  == 0..MaxPrice
Sinks   == 1..NumSinks
Callers == 1..NumCallers
Titles  == {"", "A", "B"}
Images  == {"", "img1"}
Paths   == {"", "path1"}

----------------------------------------------------------------------------
(* domain::WishlistItem, domain::Product, domain::ChangeEvent *)

NoPrice == -1
NoStock == "unset"

WishlistItem(id, title, locked, price, maxp, stock, uhd, img, path, nprice, nstock) ==
    [id |-> id, url |-> id, title |-> title, title_locked |-> locked,
     current_price |-> price, desired_max_price |-> maxp, in_stock |-> stock,
     is_uhd_4k |-> uhd, image_url |-> img, local_image_path |-> path,
     notify_on_price_drop |-> nprice, notify_on_stock |-> nstock]

Product(title, price, stock, uhd, img, path) ==
    [title |-> title, price |-> price, in_stock |-> stock, is_uhd_4k |-> uhd,
     image_url |-> img, local_image_path |-> path]

ChangeEvent(type, item, oldp, newp, olds, news) ==
    [type |-> type, item |-> item, old_price |-> oldp, new_price |-> newp,
     old_stock_status |-> olds, new_stock_status |-> news]

StockOpt(b) == IF b THEN "true" ELSE "false"

Abs(x) == IF x < 0 THEN -x ELSE x

\* std::abs(a - b) > 0.01 on the doubles nearest to a/100 and b/100.
\* A difference of two cents or more exceeds 0.01, a difference of zero does
\* not; for a difference of exactly one cent the rounded subtraction decides,
\* and these are the pairs (low, low+1), low < 30, for which it exceeds 0.01.
OneCentOver == {3, 4, 6, 9, 12, 13, 15, 16, 18, 19, 21, 22, 24, 25, 26, 27, 29}

Min(a, b) == IF a < b THEN a ELSE b

PriceDiffers(a, b) ==
    \/ Abs(a - b) >= 2
    \/ Abs(a - b) = 1 /\ Min(a, b) \in OneCentOver

\* The four conditions of the classification chain.
IsPriceDrop(old_item, new_item) ==
    /\ new_item.notify_on_price_drop
    /\ new_item.in_stock
    /\ new_item.current_price <= new_item.desired_max_price
    /\ old_item.current_price > new_item.desired_max_price

IsBackInStock(old_item, new_item) ==
    /\ new_item.notify_on_stock
    /\ ~old_item.in_stock
    /\ new_item.in_stock

IsPriceChanged(old_item, new_item) ==
    PriceDiffers(old_item.current_price, new_item.current_price)

IsOutOfStock(old_item, new_item) ==
    old_item.in_stock /\ ~new_item.in_stock

PriceDropEvent(old_item, new_item) ==
    ChangeEvent("PriceDroppedBelowThreshold", new_item,
                old_item.current_price, new_item.current_price, NoStock, NoStock)

BackInStockEvent(old_item, new_item) ==
    ChangeEvent("BackInStock", new_item, NoPrice, NoPrice,
                StockOpt(old_item.in_stock), StockOpt(new_item.in_stock))

PriceChangedEvent(old_item, new_item) ==
    ChangeEvent("PriceChanged", new_item,
                old_item.current_price, new_item.current_price, NoStock, NoStock)

OutOfStockEvent(old_item, new_item) ==
    ChangeEvent("OutOfStock", new_item, NoPrice, NoPrice,
                StockOpt(old_item.in_stock), StockOpt(new_item.in_stock))

----------------------------------------------------------------------------
(* ChangeDetector *)

\* Branches of detectChanges that call notifyObservers(event).
Dispatched == {"PriceDroppedBelowThreshold", "BackInStock"}

\* The four tests as independent ifs, without the else.
ClassifyIndependent(old_item, new_item) ==
    (IF IsPriceDrop(old_item, new_item)
     THEN <<PriceDropEvent(old_item, new_item)>> ELSE <<>>)
    \o (IF IsBackInStock(old_item, new_item)
        THEN <<BackInStockEvent(old_item, new_item)>> ELSE <<>>)
    \o (IF IsPriceChanged(old_item, new_item)
        THEN <<PriceChangedEvent(old_item, new_item)>> ELSE <<>>)
    \o (IF IsOutOfStock(old_item, new_item)
        THEN <<OutOfStockEvent(old_item, new_item)>> ELSE <<>>)

\* The chain with the stock test ahead of the threshold test.
ClassifyStockFirst(old_item, new_item) ==
    IF IsBackInStock(old_item, new_item) THEN <<BackInStockEvent(old_item, new_item)>>
    ELSE IF IsPriceDrop(old_item, new_item) THEN <<PriceDropEvent(old_item, new_item)>>
    ELSE IF IsPriceChanged(old_item, new_item) THEN <<PriceChangedEvent(old_item, new_item)>>
    ELSE IF IsOutOfStock(old_item, new_item) THEN <<OutOfStockEvent(old_item, new_item)>>
    ELSE <<>>

\* A chain that builds no event while no observer is registered.
ClassifyWhenObserved(old_item, new_item) ==
    IF observers_ = <<>> THEN <<>>
    ELSE IF IsPriceDrop(old_item, new_item) THEN <<PriceDropEvent(old_item, new_item)>>
    ELSE IF IsBackInStock(old_item, new_item) THEN <<BackInStockEvent(old_item, new_item)>>
    ELSE IF IsPriceChanged(old_item, new_item) THEN <<PriceChangedEvent(old_item, new_item)>>
    ELSE IF IsOutOfStock(old_item, new_item) THEN <<OutOfStockEvent(old_item, new_item)>>
    ELSE <<>>

\* The if / else-if chain of detectChanges: the changes vector it builds.
Classify(old_item, new_item) ==
    IF IsPriceDrop(old_item, new_item) THEN <<PriceDropEvent(old_item, new_item)>>
    ELSE IF IsBackInStock(old_item, new_item) THEN <<BackInStockEvent(old_item, new_item)>>
    ELSE IF IsPriceChanged(old_item, new_item) THEN <<PriceChangedEvent(old_item, new_item)>>
    ELSE IF IsOutOfStock(old_item, new_item) THEN <<OutOfStockEvent(old_item, new_item)>>
    ELSE <<>>

\* The observers reached by the loop of notifyObservers over obs when the
\* sinks in bad throw from notify: the loop has no try block, so it ends at
\* the first observer that throws.
RECURSIVE Reached(_, _)
Reached(obs, bad) ==
    IF obs = <<>> THEN <<>>
    ELSE IF Head(obs) \in bad THEN <<Head(obs)>>
    ELSE <<Head(obs)>> \o Reached(Tail(obs), bad)

\* notifyObservers(event): the notify calls made, and whether one threw.
notifyObservers(event, obs, bad) ==
    LET reached == Reached(obs, bad)
    IN  [calls |-> [k \in 1..Len(reached) |-> [sink |-> reached[k], type |-> event.type]],
         threw |-> \E k \in 1..Len(reached) : reached[k] \in bad]

\* detectChanges(old_item, new_item) with the registered observers obs, when
\* the sinks in bad throw: the returned vector (threw = FALSE), or the
\* exception leaving detectChanges (threw = TRUE), and the notify calls made.
RECURSIVE Fanout(_, _, _)
Fanout(events, obs, bad) ==
    IF events = <<>> THEN [calls |-> <<>>, threw |-> FALSE]
    ELSE IF Head(events).type \in Dispatched
         THEN LET n == notifyObservers(Head(events), obs, bad)
              IN  IF n.threw THEN n
                  ELSE LET r == Fanout(Tail(events), obs, bad)
                       IN  [calls |-> n.calls \o r.calls, threw |-> r.threw]
         ELSE Fanout(Tail(events), obs, bad)

detectChanges(old_item, new_item, obs, bad) ==
    LET changes == Classify(old_item, new_item)
        fan     == Fanout(changes, obs, bad)
    IN  [threw   |-> fan.threw,
         changes |-> IF fan.threw THEN <<>> ELSE changes,
         found   |-> changes,
         calls   |-> fan.calls]

----------------------------------------------------------------------------
(* Scheduler: pure parts *)

\* A merge that takes the product's price whatever it is.
MergeAnyPrice(old_item, product) ==
    [old_item EXCEPT
        !.title = IF ~old_item.title_locked /\ product.title # ""
                  THEN product.title ELSE @,
        !.current_price = product.price,
        !.in_stock = product.in_stock,
        !.is_uhd_4k = product.is_uhd_4k,
        !.image_url = product.image_url,
        !.local_image_path =
              IF product.local_image_path # "" THEN product.local_image_path
              ELSE IF product.image_url # old_item.image_url /\ product.image_url # ""
                   THEN ""
                   ELSE @]

\* updateWishlistItem, lines 290-323: the merge of a product into a copy of
\* the item. 0.01 is one cent, so price > 0.01 is price > 1.
Merge(old_item, product) ==
    [old_item EXCEPT
        !.title = IF ~old_item.title_locked /\ product.title # ""
                  THEN product.title ELSE @,
        !.current_price = IF product.price > 1 THEN product.price ELSE @,
        !.in_stock = product.in_stock,
        !.is_uhd_4k = product.is_uhd_4k,
        !.image_url = product.image_url,
        !.local_image_path =
              IF product.local_image_path # "" THEN product.local_image_path
              ELSE IF product.image_url # old_item.image_url /\ product.image_url # ""
                   THEN ""
                   ELSE @]

\* Half the width of int: products are computed on 16-bit limbs.
Limb == 65536

\* The largest d for which d * m still fits an int.
FitsInt(d, m) == d <= 2147483647 \div m

\* The int product d * m, d >= 0, after two's-complement wrap-around.
WrapMul(d, m) ==
    LET lo   == (d % Limb) * m
        low  == lo % Limb
        high == ((d \div Limb) * m + lo \div Limb) % Limb
    IN  IF high >= Limb \div 2 THEN (high - Limb) * Limb + low
        ELSE high * Limb + low

\* The int division of C++, which truncates toward zero.
IntDiv(a, b) == IF a >= 0 THEN a \div b ELSE -((-a) \div b)

\* Line 130: the clamp to one second.
Clamp(throttle_ms) == IF throttle_ms < 1000 THEN 1000 ELSE throttle_ms

\* runOnce, lines 128-131: the sleep between two launches, in milliseconds,
\* as the set of values a build can compute. delay_seconds_ * 1000 is an int
\* product; when it does not fit, the behaviour is undefined: the product
\* wraps, or the compiler has folded (d * 1000) / 4 into d * 250.
ThrottleMs(delay) ==
    IF FitsInt(delay, 1000)
    THEN {Clamp(IntDiv(delay * 1000, kConcurrency))}
    ELSE {Clamp(IntDiv(WrapMul(delay, 1000), kConcurrency)),
          Clamp(WrapMul(delay, 1000 \div kConcurrency))}

\* A guard that never turns a call away.
AlreadyRunningIgnored(previous) == FALSE

\* runOnce, line 45: is_running_.exchange(true) returns the previous value;
\* the call is turned away when that value is true.
AlreadyRunning(previous) == previous

\* A guard that flips the flag instead of setting it.
ExchangeToggles(previous) == ~previous

\* runOnce, line 45: the value is_running_.exchange(true) stores.
ExchangeStores(previous) == TRUE

\* A capacity test that is off by one.
AtCapacityOffByOne(n) == n > kConcurrency

\* runOnce, line 114: the in-flight list is at capacity.
AtCapacity(n) == n >= kConcurrency

\* ScraperFactory::create: a scraper exists for the URL.
CanHandle(url) == url \in shop.supported

\* The rows of findAll, as a sequence (ORDER BY created_at DESC: rows were
\* created in id order).
RECURSIVE RowsDesc(_)
RowsDesc(ids) ==
    IF ids = {} THEN <<>>
    ELSE LET newest == CHOOSE x \in ids : \A y \in ids : y <= x
         IN  <<wishlist[newest]>> \o RowsDesc(ids \ {newest})

findAll == RowsDesc(DOMAIN wishlist)

\* A future that reports ready, and whose wait returns, at any time.
ReadyAlways(t) == TRUE

\* A task's future is ready: process_item returned or an exception left it.
Ready(t) == t.pc \in {"done", "threw"}

InFlight(t) == t.pc \notin {"none", "done", "threw"}

NoProduct == Product("", 0, FALSE, FALSE, "", "")

NoItem == WishlistItem(0, "", FALSE, 0, 0, FALSE, FALSE, "", "", FALSE, FALSE)

NoOutcome == [threw |-> FALSE, changes |-> <<>>, found |-> <<>>, calls |-> <<>>]

\* A task before std::async starts it.
NoTask == [pc |-> "none", item |-> NoItem, success |-> FALSE, product |-> NoProduct,
           error_message |-> "", updated |-> NoItem, det |-> NoOutcome,
           saved |-> "unset", hist |-> <<>>, stored |-> "unset", counted |-> "unset"]

----------------------------------------------------------------------------
(* Scheduler::addNotifier *)

\* An empty shared_ptr<INotifier>.
nullptr == 0

\* A registration that takes whatever it is handed.
AcceptedAlways(notifier) == TRUE

\* Line 32: notifier && notifier->isConfigured(). A notifier reads its
\* settings in its constructor, so the answer of an object never changes.
Accepted(notifier) == notifier # nullptr /\ notifier \in configured

\* main.cpp offers each notifier once, in a fixed order (Discord, then
\* e-mail), before the first runOnce call.
addNotifier(s) ==
    /\ s \notin offered
    /\ \A r \in 1..(s - 1) : r \in offered
    /\ offered' = offered \cup {s}
    /\ observers_' = IF Accepted(s) THEN Append(observers_, s) ELSE observers_
    /\ UNCHANGED <<is_running_, scrape_total_, scrape_processed_, wishlist,
                   price_history, shop, faults, requests, configured,
                   delay_seconds_, slept, pc, wishlist_items, loop_i, futures,
                   processed_count, success_count, error_count, ret, task,
                   h_old, h_new, h_out, h_log, edits, progress, put, alerts>>

----------------------------------------------------------------------------
(* Scheduler::runOnce, the calling thread *)

sharedUnchanged == UNCHANGED <<observers_, offered, shop, configured,
                               delay_seconds_, h_old, h_new, h_out, h_log,
                               edits, progress, put>>

\* Lines 45-48: the guard.
Enter(c) ==
    /\ pc[c] \in {"idle", "returned", "thrown"}
    /\ \A d \in 1..(c - 1) : pc[d] # "idle"
    /\ offered = Sinks
    /\ requests > 0
    /\ requests' = requests - 1
    /\ is_running_' = ExchangeStores(is_running_)
    /\ IF AlreadyRunning(is_running_)
       THEN /\ pc' = [pc EXCEPT ![c] = "returned"]
            /\ ret' = [ret EXCEPT ![c] = 0]
       ELSE /\ pc' = [pc EXCEPT ![c] = "load"]
            /\ ret' = [ret EXCEPT ![c] = -1]
    /\ UNCHANGED <<scrape_total_, scrape_processed_, wishlist, price_history,
                   faults, slept, wishlist_items, loop_i, futures,
                   processed_count, success_count, error_count, task>>
    /\ sharedUnchanged
    /\ UNCHANGED alerts

\* An empty run that leaves the flag as it found it.
FlagAfterEmptyLoadKept(previous) == previous

\* Line 57: is_running_ = false.
FlagAfterEmptyLoad(previous) == FALSE

\* Lines 52-59 and 68-74: findAll, the empty check, the locals of the run.
Load(c) ==
    /\ pc[c] = "load"
    /\ LET rows == findAll
       IN  IF rows = <<>>
           THEN /\ is_running_' = FlagAfterEmptyLoad(is_running_)
                /\ ret' = [ret EXCEPT ![c] = 0]
                /\ pc' = [pc EXCEPT ![c] = "returned"]
                /\ UNCHANGED <<wishlist_items, task, futures, loop_i,
                               processed_count, success_count, error_count>>
           ELSE /\ wishlist_items' = [wishlist_items EXCEPT ![c] = rows]
                /\ task' = [task EXCEPT ![c] = [i \in 1..Len(rows) |-> NoTask]]
                /\ futures' = [futures EXCEPT ![c] = <<>>]
                /\ loop_i' = [loop_i EXCEPT ![c] = 1]
                /\ processed_count' = [processed_count EXCEPT ![c] = 0]
                /\ success_count' = [success_count EXCEPT ![c] = 0]
                /\ error_count' = [error_count EXCEPT ![c] = 0]
                /\ pc' = [pc EXCEPT ![c] = "set_total"]
                /\ UNCHANGED <<is_running_, ret>>
    /\ UNCHANGED <<scrape_total_, scrape_processed_, wishlist, price_history,
                   faults, requests, slept>>
    /\ sharedUnchanged
    /\ UNCHANGED alerts

\* Lines 52-53 when DatabaseManager::prepare throws: the exception leaves
\* runOnce, nothing after line 53 runs.
LoadThrows(c) ==
    /\ pc[c] = "load"
    /\ faults > 0
    /\ faults' = faults - 1
    /\ pc' = [pc EXCEPT ![c] = "thrown"]
    /\ UNCHANGED <<is_running_, scrape_total_, scrape_processed_, wishlist,
                   price_history, requests, slept, wishlist_items, loop_i,
                   futures, processed_count, success_count, error_count, ret,
                   task>>
    /\ sharedUnchanged
    /\ UNCHANGED alerts

\* Line 64.
SetTotal(c) ==
    /\ pc[c] = "set_total"
    /\ scrape_total_' = Len(wishlist_items[c])
    /\ pc' = [pc EXCEPT ![c] = "reset"]
    /\ UNCHANGED <<is_running_, scrape_processed_, wishlist, price_history,
                   faults, requests, slept, wishlist_items, loop_i, futures,
                   processed_count, success_count, error_count, ret, task>>
    /\ sharedUnchanged
    /\ UNCHANGED alerts

\* Line 65.
ResetProcessed(c) ==
    /\ pc[c] = "reset"
    /\ scrape_processed_' = 0
    /\ pc' = [pc EXCEPT ![c] = "reap"]
    /\ UNCHANGED <<is_running_, scrape_total_, wishlist, price_history,
                   faults, requests, slept, wishlist_items, loop_i, futures,
                   processed_count, success_count, error_count, ret, task>>
    /\ sharedUnchanged
    /\ UNCHANGED alerts

\* Lines 107-112: the futures that are ready are dropped from the list.
Reap(c) ==
    /\ pc[c] = "reap"
    /\ futures' = [futures EXCEPT ![c] = SelectSeq(@, LAMBDA i : ~Ready(task[c][i]))]
    /\ pc' = [pc EXCEPT ![c] = "launch"]
    /\ UNCHANGED <<is_running_, scrape_total_, scrape_processed_, wishlist,
                   price_history, faults, requests, slept, wishlist_items,
                   loop_i, processed_count, success_count, error_count, ret,
                   task>>
    /\ sharedUnchanged
    /\ UNCHANGED alerts

\* A wait on the newest future of the list.
WaitedBack(fs) == fs[Len(fs)]

\* Line 117: futures.front(), the future that is waited for.
WaitedFront(fs) == Head(fs)

\* Lines 114-122: at capacity, futures.front().wait() blocks until the oldest
\* task is ready and the front is erased; then std::async starts
\* process_item on a copy of item i and its future is pushed.
Launch(c) ==
    /\ pc[c] = "launch"
    /\ LET i == loop_i[c]
           full == AtCapacity(Len(futures[c])) /\ futures[c] # <<>>
       IN  /\ full => Ready(task[c][WaitedFront(futures[c])])
           /\ futures' = [futures EXCEPT ![c] = Append(IF full THEN Tail(@) ELSE @, i)]
           /\ task' = [task EXCEPT ![c][i] =
                          [NoTask EXCEPT !.pc = "start", !.item = wishlist_items[c][i]]]
    /\ pc' = [pc EXCEPT ![c] = "throttle"]
    /\ UNCHANGED <<is_running_, scrape_total_, scrape_processed_, wishlist,
                   price_history, faults, requests, slept, wishlist_items,
                   loop_i, processed_count, success_count, error_count, ret>>
    /\ sharedUnchanged
    /\ UNCHANGED alerts

\* Lines 127-137: the sleep between launches (0: sleep_for is not called),
\* then ++i and the loop test.
Throttle(c) ==
    /\ pc[c] = "throttle"
    /\ \E ms \in (IF delay_seconds_ > 0 THEN ThrottleMs(delay_seconds_) ELSE {0}) :
          slept' = [slept EXCEPT ![c] = ms]
    /\ loop_i' = [loop_i EXCEPT ![c] = @ + 1]
    /\ pc' = [pc EXCEPT ![c] = IF loop_i[c] + 1 <= Len(wishlist_items[c])
                                THEN "reap" ELSE "wait_all"]
    /\ UNCHANGED <<is_running_, scrape_total_, scrape_processed_, wishlist,
                   price_history, faults, requests, wishlist_items, futures,
                   processed_count, success_count, error_count, ret, task>>
    /\ sharedUnchanged
    /\ UNCHANGED alerts

\* Lines 140-142: every remaining future is waited for.
WaitAll(c) ==
    /\ pc[c] = "wait_all"
    /\ \A k \in 1..Len(futures[c]) : Ready(task[c][futures[c][k]])
    /\ pc' = [pc EXCEPT ![c] = "release"]
    /\ UNCHANGED <<is_running_, scrape_total_, scrape_processed_, wishlist,
                   price_history, faults, requests, slept, wishlist_items,
                   loop_i, futures, processed_count, success_count,
                   error_count, ret, task>>
    /\ sharedUnchanged
    /\ UNCHANGED alerts

\* Line 144.
Release(c) ==
    /\ pc[c] = "release"
    /\ is_running_' = FALSE
    /\ pc' = [pc EXCEPT ![c] = "return"]
    /\ UNCHANGED <<scrape_total_, scrape_processed_, wishlist, price_history,
                   faults, requests, slept, wishlist_items, loop_i, futures,
                   processed_count, success_count, error_count, ret, task>>
    /\ sharedUnchanged
    /\ UNCHANGED alerts

\* Line 150: the value returned; the locals of the call end with it.
Return(c) ==
    /\ pc[c] = "return"
    /\ ret' = [ret EXCEPT ![c] = processed_count[c]]
    /\ pc' = [pc EXCEPT ![c] = "returned"]
    /\ wishlist_items' = [wishlist_items EXCEPT ![c] = <<>>]
    /\ task' = [task EXCEPT ![c] = <<>>]
    /\ futures' = [futures EXCEPT ![c] = <<>>]
    /\ loop_i' = [loop_i EXCEPT ![c] = 0]
    /\ processed_count' = [processed_count EXCEPT ![c] = 0]
    /\ success_count' = [success_count EXCEPT ![c] = 0]
    /\ error_count' = [error_count EXCEPT ![c] = 0]
    /\ UNCHANGED <<is_running_, scrape_total_, scrape_processed_, wishlist,
                   price_history, faults, requests, slept>>
    /\ sharedUnchanged
    /\ UNCHANGED alerts

----------------------------------------------------------------------------
(* process_item, the std::async task of item i in the run of caller c *)

callerUnchanged == UNCHANGED <<is_running_, scrape_total_, requests, slept, pc,
                               wishlist_items, loop_i, futures, ret>>

\* The record of what happened to the item id, with one more entry when
\* the occasion arose.
Noted(id, arose, what) ==
    IF arose /\ id \in DOMAIN alerts
    THEN [alerts EXCEPT ![id] = Append(@, what)]
    ELSE alerts

\* A fetch that is tried again after it failed.
FetchOutcomeRetry(kind) == IF kind = "product" THEN "scraped" ELSE "start"

\* A fetch whose exception is not caught.
FetchOutcomeUncaught(kind) ==
    IF kind = "product" THEN "scraped"
    ELSE IF kind = "exception" THEN "threw" ELSE "failed"

\* scrapeProduct, lines 271-282: where the task goes on after scraper->scrape
\* returned a product, returned nothing, or threw (caught at line 280).
FetchOutcome(kind) == IF kind = "product" THEN "scraped" ELSE "failed"

\* scrapeProduct, lines 261-285, and the image caching of lines 84-89.
\* A url without scraper, a fetch that returns nothing and a fetch that
\* throws (caught at line 280) all give success = false.
Scrape(c, i) ==
    /\ task[c][i].pc = "start"
    /\ IF ~CanHandle(task[c][i].item.url)
       THEN /\ task' = [task EXCEPT ![c][i].pc = "failed",
                                   ![c][i].error_message = "No scraper available for URL"]
            /\ UNCHANGED alerts
       ELSE \E a \in shop.answers :
              IF a.kind = "product"
              THEN \E cached \in (IF a.product.image_url # "" THEN BOOLEAN ELSE {FALSE}) :
                     /\ task' = [task EXCEPT
                                   ![c][i].pc = FetchOutcome(a.kind),
                                   ![c][i].success = TRUE,
                                   ![c][i].product =
                                       [a.product EXCEPT !.local_image_path =
                                           IF cached THEN "path1" ELSE ""]]
                     /\ alerts' = Noted(task[c][i].item.id,
                                        a.product.price > task[c][i].item.desired_max_price,
                                        "above")
              ELSE /\ task' = [task EXCEPT
                                 ![c][i].pc = FetchOutcome(a.kind),
                                 ![c][i].error_message =
                                     IF a.kind = "exception" THEN "Exception"
                                     ELSE "Scraping returned no data"]
                   /\ UNCHANGED alerts
    /\ UNCHANGED <<scrape_processed_, wishlist, price_history, faults,
                   processed_count, success_count, error_count>>
    /\ callerUnchanged
    /\ sharedUnchanged

\* The sinks of obs as a set.
SinksOf(obs) == {obs[k] : k \in 1..Len(obs)}

\* updateWishlistItem, lines 290-326: merge, then detectChanges. An
\* exception thrown by a sink's notify leaves notifyObservers, detectChanges,
\* updateWishlistItem and process_item (none has a try block) and is stored
\* in the future.
Detect(c, i) ==
    /\ task[c][i].pc = "scraped"
    /\ LET old_item     == task[c][i].item
           updated_item == Merge(old_item, task[c][i].product)
           notifies     == \E k \in 1..Len(Classify(old_item, updated_item)) :
                               Classify(old_item, updated_item)[k].type \in Dispatched
       IN  \E bad \in (IF notifies /\ faults > 0
                       THEN SUBSET SinksOf(observers_) ELSE {{}}) :
              LET det == detectChanges(old_item, updated_item, observers_, bad)
              IN  /\ faults' = IF bad = {} THEN faults ELSE faults - 1
                  /\ alerts' =
                        IF \E k \in 1..Len(det.calls) :
                              det.calls[k].type = "PriceDroppedBelowThreshold"
                        THEN Noted(old_item.id, TRUE, "drop")
                        ELSE Noted(old_item.id,
                                   \E k \in 1..Len(det.found) :
                                      det.found[k].type = "PriceDroppedBelowThreshold",
                                   "found")
                  /\ task' = [task EXCEPT
                                ![c][i].updated = updated_item,
                                ![c][i].det = det,
                                ![c][i].pc = IF det.threw THEN "threw" ELSE "detected"]
    /\ UNCHANGED <<scrape_processed_, wishlist, price_history,
                   processed_count, success_count, error_count>>
    /\ callerUnchanged
    /\ sharedUnchanged

\* An update whose rejection is logged without the early return.
AfterUpdateNoReturn(ok) == "saved"

\* What updateWishlistItem does after repo.update answered (lines 329-338):
\* it returns early on false and goes on to the history entry on true.
AfterUpdate(ok) == IF ok THEN "saved" ELSE "returned"

\* SqliteWishlistRepository::update: every column but id and url is
\* overwritten with the task's copy of the item; when the row was deleted
\* meanwhile the statement changes nothing and still ends with SQLITE_DONE.
Save(c, i) ==
    /\ task[c][i].pc = "detected"
    /\ LET updated_item == task[c][i].updated
       IN  \/ /\ wishlist' = IF updated_item.id \in DOMAIN wishlist
                             THEN [wishlist EXCEPT ![updated_item.id] =
                                     [updated_item EXCEPT
                                         !.url = wishlist[updated_item.id].url]]
                             ELSE wishlist
              /\ task' = [task EXCEPT ![c][i].saved = "true",
                                      ![c][i].pc = AfterUpdate(TRUE)]
              /\ UNCHANGED faults
           \/ /\ faults > 0
              /\ faults' = faults - 1
              /\ task' = [task EXCEPT ![c][i].saved = "false",
                                      ![c][i].pc = AfterUpdate(FALSE)]
              /\ UNCHANGED wishlist
    /\ UNCHANGED <<scrape_processed_, price_history,
                   processed_count, success_count, error_count>>
    /\ callerUnchanged
    /\ sharedUnchanged
    /\ UNCHANGED alerts

\* SqliteWishlistRepository::update when DatabaseManager::prepare throws:
\* the exception leaves process_item.
SaveThrows(c, i) ==
    /\ task[c][i].pc = "detected"
    /\ faults > 0
    /\ faults' = faults - 1
    /\ task' = [task EXCEPT ![c][i].pc = "threw"]
    /\ UNCHANGED <<scrape_processed_, wishlist, price_history,
                   processed_count, success_count, error_count>>
    /\ callerUnchanged
    /\ sharedUnchanged
    /\ UNCHANGED alerts

\* The history ledger's addEntry(id, price, in_stock): the row is appended,
\* or the append fails and is only logged.
addEntry(id, price, in_stock, stored) ==
    IF stored
    THEN [price_history EXCEPT ![id] = Append(@, [price |-> price, in_stock |-> in_stock])]
    ELSE price_history

\* A history entry built from the item as it was loaded.
HistoryEntryStale(old_item, updated_item) ==
    [wishlist_id |-> old_item.id, price |-> old_item.current_price,
     in_stock |-> old_item.in_stock]

\* Lines 337-338: the arguments of the addEntry call.
HistoryEntry(old_item, updated_item) ==
    [wishlist_id |-> updated_item.id, price |-> updated_item.current_price,
     in_stock |-> updated_item.in_stock]

\* updateWishlistItem, lines 336-347. The row of a deleted item cannot be
\* referenced (foreign key), so the append for it fails.
History(c, i) ==
    /\ task[c][i].pc = "saved"
    /\ LET updated_item == task[c][i].updated
           deleted == updated_item.id \notin DOMAIN wishlist
       IN  \E stored \in (IF deleted THEN {FALSE}
                          ELSE IF faults > 0 THEN BOOLEAN ELSE {TRUE}) :
              /\ task' = [task EXCEPT
                            ![c][i].hist = Append(@, HistoryEntry(task[c][i].item, updated_item)),
                            ![c][i].stored = StockOpt(stored),
                            ![c][i].pc = "returned"]
              /\ price_history' = addEntry(updated_item.id, updated_item.current_price,
                                           updated_item.in_stock, stored)
              /\ faults' = IF stored \/ deleted THEN faults ELSE faults - 1
    /\ UNCHANGED <<scrape_processed_, wishlist,
                   processed_count, success_count, error_count>>
    /\ callerUnchanged
    /\ sharedUnchanged
    /\ UNCHANGED alerts

\* A branch that counts a task whose history append failed as an error.
CountsUnlessAppendFailed(t) == t.success /\ t.stored # "false"

\* A branch that counts every task as a success.
CountsAlways(t) == TRUE

\* Lines 82-100: the branch on result.success picks the counter; the counters
\* are locals of runOnce that only runOnce reads, after the waits.
CountsAsSuccess(t) == t.success

Count(c, i) ==
    /\ task[c][i].pc \in {"returned", "failed"}
    /\ IF CountsAsSuccess(task[c][i])
       THEN /\ success_count' = [success_count EXCEPT ![c] = @ + 1]
            /\ UNCHANGED error_count
       ELSE /\ error_count' = [error_count EXCEPT ![c] = @ + 1]
            /\ UNCHANGED success_count
    /\ processed_count' = [processed_count EXCEPT ![c] = @ + 1]
    /\ task' = [task EXCEPT ![c][i].pc = "counted",
                            ![c][i].counted = IF CountsAsSuccess(task[c][i])
                                              THEN "success" ELSE "error"]
    /\ UNCHANGED <<scrape_processed_, wishlist, price_history, faults>>
    /\ callerUnchanged
    /\ sharedUnchanged
    /\ UNCHANGED alerts

\* Line 101.
Progress(c, i) ==
    /\ task[c][i].pc = "counted"
    /\ scrape_processed_' = scrape_processed_ + 1
    /\ task' = [task EXCEPT ![c][i].pc = "done"]
    /\ UNCHANGED <<wishlist, price_history, faults,
                   processed_count, success_count, error_count>>
    /\ callerUnchanged
    /\ sharedUnchanged
    /\ UNCHANGED alerts

----------------------------------------------------------------------------
(* The wishlist API and the progress poller, on other threads *)

runUnchanged == UNCHANGED <<is_running_, scrape_total_, scrape_processed_,
                            observers_, offered, shop, faults, requests,
                            configured, delay_seconds_, slept, pc,
                            wishlist_items, loop_i, futures, processed_count,
                            success_count, error_count, ret, task,
                            h_old, h_new, h_out, h_log>>

\* DELETE /api/wishlist/<id>: repo.remove(id); the price history rows of the
\* item go with it (ON DELETE CASCADE).
UserDelete(id) ==
    /\ edits > 0
    /\ id \in DOMAIN wishlist
    /\ edits' = edits - 1
    /\ wishlist' = [k \in DOMAIN wishlist \ {id} |-> wishlist[k]]
    /\ price_history' = [k \in DOMAIN price_history \ {id} |-> price_history[k]]
    /\ alerts' = [k \in DOMAIN alerts \ {id} |-> alerts[k]]
    /\ UNCHANGED <<progress, put>>
    /\ runUnchanged

\* The bodies a PUT request may carry: a new threshold, both notify flags
\* switched off, a new title.
PutBodies == {"threshold", "notify", "title"}

PutApplied(item, body) ==
    IF body = "threshold" THEN [item EXCEPT !.desired_max_price = MaxPrice - 1]
    ELSE IF body = "notify" THEN [item EXCEPT !.notify_on_price_drop = FALSE,
                                              !.notify_on_stock = FALSE]
    ELSE [item EXCEPT !.title = "C"]

\* PUT /api/wishlist/<id>, lines 168-179: findById, then the fields of the
\* body are set on the item that was read.
PutRead(id, body) ==
    /\ edits > 0
    /\ put.pc = "idle"
    /\ id \in DOMAIN wishlist
    /\ edits' = edits - 1
    /\ put' = [pc |-> "read", id |-> id, item |-> PutApplied(wishlist[id], body)]
    /\ UNCHANGED <<wishlist, price_history, progress, alerts>>
    /\ runUnchanged

\* PUT /api/wishlist/<id>, line 181: repo.update(*item) writes every column
\* of the row.
PutWrite ==
    /\ put.pc = "read"
    /\ put' = [put EXCEPT !.pc = "idle"]
    /\ wishlist' = IF put.id \in DOMAIN wishlist
                   THEN [wishlist EXCEPT ![put.id] = put.item]
                   ELSE wishlist
    /\ UNCHANGED <<price_history, edits, progress, alerts>>
    /\ runUnchanged

\* getScrapeProgress, line 39: the first of its three loads.
PollProcessed ==
    /\ progress.pc = "idle"
    /\ progress' = [pc |-> "read", processed |-> scrape_processed_,
                    total |-> 0, is_active |-> FALSE]
    /\ UNCHANGED <<wishlist, price_history, edits, put, alerts>>
    /\ runUnchanged

\* getScrapeProgress, line 39: the loads of scrape_total_ and is_running_;
\* the ScrapeProgress value is returned.
PollTotal ==
    /\ progress.pc = "read"
    /\ progress' = [progress EXCEPT !.pc = "idle", !.total = scrape_total_,
                                    !.is_active = is_running_]
    /\ UNCHANGED <<wishlist, price_history, edits, put, alerts>>
    /\ runUnchanged

----------------------------------------------------------------------------
(* A single detectChanges call on arbitrary arguments *)

CallDetect ==
    /\ h_out.called < 2
    /\ \E bad \in SUBSET SinksOf(observers_) :
          h_out' = [called |-> h_out.called + 1,
                    out |-> detectChanges(h_old, h_new, observers_, bad)]
    /\ UNCHANGED <<is_running_, scrape_total_, scrape_processed_, observers_,
                   offered, wishlist, price_history, shop, faults, requests,
                   configured, delay_seconds_, slept, pc, wishlist_items,
                   loop_i, futures, processed_count, success_count,
                   error_count, ret, task, h_old, h_new, h_log,
                   edits, progress, put, alerts>>

\* A detectChanges call on one of the two orders of the pair of items,
\* recorded with the observers registered at the time of the call.
CallDetectLogged ==
    /\ Len(h_log) < MaxLog
    /\ \E pair \in {<<h_old, h_new>>, <<h_new, h_old>>} :
       \E bad \in SUBSET SinksOf(observers_) :
          LET out == detectChanges(pair[1], pair[2], observers_, bad)
          IN  h_log' = Append(h_log, [old_item |-> pair[1], new_item |-> pair[2],
                                      obs |-> observers_, returned |-> ~out.threw,
                                      found |-> out.found, changes |-> out.changes,
                                      calls |-> out.calls])
    /\ UNCHANGED <<is_running_, scrape_total_, scrape_processed_, observers_,
                   offered, wishlist, price_history, shop, faults, requests,
                   configured, delay_seconds_, slept, pc, wishlist_items,
                   loop_i, futures, processed_count, success_count,
                   error_count, ret, task, h_old, h_new, h_out,
                   edits, progress, put, alerts>>

----------------------------------------------------------------------------
(* Initial states *)

NotCalled == [called |-> 0, out |-> NoOutcome]

\* No PUT request was made yet.
NoPut == [pc |-> "idle", id |-> 0, item |-> NoItem]

\* No getScrapeProgress call was made yet.
NotPolled == [pc |-> "idle", processed |-> 0, total |-> 0, is_active |-> FALSE]

\* The row a wishlist starts with for an id: priced above its threshold,
\* odd ids in stock, even ids out of stock.
SeedItem(id) ==
    WishlistItem(id, "A", FALSE, MaxPrice, 2, id % 2 = 1, FALSE, "", "", TRUE, TRUE)

\* What a fetch can answer.
Answer(kind, product) == [kind |-> kind, product |-> product]

ShopAnswers ==
    { Answer("product", Product("B", 2, TRUE, FALSE, "", "")),
      Answer("product", Product("B", MaxPrice, TRUE, FALSE, "", "")),
      Answer("product", Product("B", MaxPrice, FALSE, FALSE, "", "")) }
    \cup {Answer("nodata", NoProduct), Answer("exception", NoProduct)}

\* A constructed Scheduler: no run was started yet.
InitFrames ==
    /\ is_running_ = FALSE
    /\ scrape_total_ = 0
    /\ scrape_processed_ = 0
    /\ pc = [c \in Callers |-> "idle"]
    /\ wishlist_items = [c \in Callers |-> <<>>]
    /\ loop_i = [c \in Callers |-> 0]
    /\ futures = [c \in Callers |-> <<>>]
    /\ processed_count = [c \in Callers |-> 0]
    /\ success_count = [c \in Callers |-> 0]
    /\ error_count = [c \in Callers |-> 0]
    /\ ret = [c \in Callers |-> -1]
    /\ slept = [c \in Callers |-> 0]
    /\ task = [c \in Callers |-> <<>>]

InitScheduler ==
    /\ InitFrames
    /\ observers_ = <<>>
    /\ offered = {}
    /\ h_old = NoItem
    /\ h_new = NoItem
    /\ h_out = NotCalled
    /\ h_log = <<>>
    /\ progress = NotPolled
    /\ put = NoPut

Init ==
    /\ InitScheduler
    /\ \E n \in 0..MaxItems : wishlist = [id \in 1..n |-> SeedItem(id)]
    /\ price_history = [id \in DOMAIN wishlist |-> <<>>]
    /\ shop \in {[supported |-> 1..MaxItems, answers |-> ShopAnswers],
                 [supported |-> 2..MaxItems, answers |-> ShopAnswers]}
    /\ configured = Sinks
    /\ delay_seconds_ = 8
    /\ faults = MaxFaults
    /\ requests = MaxCalls
    /\ edits = 0
    /\ alerts = [id \in DOMAIN wishlist |-> <<>>]

\* A wishlist longer than the concurrency limit, scraped by one run; no
\* scraper handles the urls of the first two rows.
WindowAnswers ==
    { Answer("product", Product("B", MaxPrice, TRUE, FALSE, "", "")),
      Answer("nodata", NoProduct) }

InitWindow ==
    /\ InitScheduler
    /\ wishlist = [id \in 1..WindowItems |-> SeedItem(id)]
    /\ price_history = [id \in DOMAIN wishlist |-> <<>>]
    /\ shop = [supported |-> 3..WindowItems, answers |-> WindowAnswers]
    /\ configured = Sinks
    /\ delay_seconds_ = 8
    /\ faults = 1
    /\ requests = 1
    /\ edits = 0
    /\ alerts = [id \in DOMAIN wishlist |-> <<>>]

\* A run over ThrottleItems rows with the default delay and runs over two
\* rows with other configured delays; a scraper handles the url of the
\* oldest row only, which findAll returns last.
Delays == {0, 1, 5, 2147483, 2147484}

ThrottleRuns ==
    {[items |-> ThrottleItems, delay |-> 8]} \cup {[items |-> 2, delay |-> d] : d \in Delays}

InitThrottle ==
    /\ InitScheduler
    /\ \E run \in ThrottleRuns :
          /\ wishlist = [id \in 1..run.items |-> SeedItem(id)]
          /\ delay_seconds_ = run.delay
    /\ price_history = [id \in DOMAIN wishlist |-> <<>>]
    /\ shop = [supported |-> {1}, answers |-> WindowAnswers]
    /\ configured = Sinks
    /\ faults = 1
    /\ requests = 1
    /\ edits = 0
    /\ alerts = [id \in DOMAIN wishlist |-> <<>>]

\* One run over a single row, for every row and every fetched product of a
\* domain that covers each branch of the merge.
MergeItems ==
    { WishlistItem(1, "A", locked, price, 2, stock, FALSE, img[1], img[2], TRUE, TRUE) :
        locked \in BOOLEAN, price \in {2, MaxPrice}, stock \in BOOLEAN,
        img \in {<<"", "">>, <<"img1", "path1">>} }

MergeProducts ==
    { Product(title, price, stock, uhd, img, "") :
        title \in {"", "B"}, price \in {0, 1, 2, MaxPrice}, stock \in BOOLEAN,
        uhd \in BOOLEAN, img \in {"", "img1", "img2"} }

InitMerge ==
    /\ InitScheduler
    /\ \E item \in MergeItems : wishlist = [id \in {1} |-> item]
    /\ price_history = [id \in DOMAIN wishlist |-> <<>>]
    /\ \E product \in MergeProducts :
          shop = [supported |-> {1}, answers |-> {Answer("product", product)}]
    /\ configured = Sinks
    /\ delay_seconds_ = 8
    /\ faults = 1
    /\ requests = 1
    /\ edits = 0
    /\ alerts = [id \in DOMAIN wishlist |-> <<>>]

Next ==
    \/ \E s \in Sinks : addNotifier(s)
    \/ \E c \in Callers :
          \/ Enter(c)
          \/ Load(c)
          \/ LoadThrows(c)
          \/ SetTotal(c)
          \/ ResetProcessed(c)
          \/ Reap(c)
          \/ Launch(c)
          \/ Throttle(c)
          \/ WaitAll(c)
          \/ Release(c)
          \/ Return(c)
    \/ \E c \in Callers : \E i \in DOMAIN task[c] :
          \/ Scrape(c, i)
          \/ Detect(c, i)
          \/ Save(c, i)
          \/ SaveThrows(c, i)
          \/ History(c, i)
          \/ Count(c, i)
          \/ Progress(c, i)

Spec == Init /\ [][Next]_vars

SpecWindow == InitWindow /\ [][Next]_vars

SpecThrottle == InitThrottle /\ [][Next]_vars

SpecMerge == InitMerge /\ [][Next]_vars

\* Two runs over a wishlist from which the user may delete a row, watched
\* by a poller.
InitProgress ==
    /\ InitScheduler
    /\ wishlist = [id \in 1..MaxItems |-> SeedItem(id)]
    /\ price_history = [id \in DOMAIN wishlist |-> <<>>]
    /\ shop = [supported |-> {1},
               answers |-> {Answer("product", Product("B", MaxPrice, TRUE, FALSE, "", ""))}]
    /\ configured = Sinks
    /\ delay_seconds_ = 8
    /\ faults = 1
    /\ requests = MaxCalls
    /\ edits = 1
    /\ alerts = [id \in DOMAIN wishlist |-> <<>>]

NextProgress ==
    \/ Next
    \/ \E id \in 1..MaxItems : UserDelete(id)
    \/ PollProcessed
    \/ PollTotal

SpecProgress == InitProgress /\ [][NextProgress]_vars

\* Runs over one row stored above its threshold, with fetches that answer a
\* price at the threshold, in stock or out of stock, or the old price.
AlertAnswers ==
    { Answer("product", Product("B", 2, TRUE, FALSE, "", "")),
      Answer("product", Product("B", 2, FALSE, FALSE, "", "")),
      Answer("product", Product("B", MaxPrice, TRUE, FALSE, "", "")) }

InitAlerts ==
    /\ InitScheduler
    /\ wishlist = [id \in {1} |->
                      WishlistItem(1, "A", FALSE, MaxPrice, 2, TRUE, FALSE, "", "", TRUE, TRUE)]
    /\ price_history = [id \in DOMAIN wishlist |-> <<>>]
    /\ shop = [supported |-> {1}, answers |-> AlertAnswers]
    /\ configured = Sinks
    /\ delay_seconds_ = 8
    /\ faults = MaxFaults
    /\ requests = MaxCalls
    /\ edits = 0
    /\ alerts = [id \in DOMAIN wishlist |-> <<>>]

SpecAlerts == InitAlerts /\ [][Next]_vars

\* Runs over one title-locked row that the user edits once through the API.
InitEdit ==
    /\ InitScheduler
    /\ wishlist = [id \in {1} |->
                      WishlistItem(1, "A", TRUE, MaxPrice, 2, TRUE, FALSE, "", "", TRUE, TRUE)]
    /\ price_history = [id \in DOMAIN wishlist |-> <<>>]
    /\ shop = [supported |-> {1}, answers |-> WindowAnswers]
    /\ configured = Sinks
    /\ delay_seconds_ = 8
    /\ faults = 1
    /\ requests = MaxCalls
    /\ edits = 1
    /\ alerts = [id \in DOMAIN wishlist |-> <<>>]

NextEdit ==
    \/ Next
    \/ \E id \in 1..MaxItems : \E body \in PutBodies : PutRead(id, body)
    \/ PutWrite

SpecEdit == InitEdit /\ [][NextEdit]_vars

\* The window specification with threads that keep running: a step that
\* stays possible is eventually taken.
SpecWindowFair == InitWindow /\ [][Next]_vars /\ WF_vars(Next)

\* detectChanges on every pair of items of the bounded domain, with every
\* registration main.cpp can produce.
Ascending(S) ==
    LET RECURSIVE Asc(_)
        Asc(n) == IF n = 0 THEN <<>>
                  ELSE IF n \in S THEN Append(Asc(n - 1), n) ELSE Asc(n - 1)
    IN  Asc(NumSinks)

InitDetect ==
    /\ InitFrames
    /\ configured \in SUBSET Sinks
    /\ offered = Sinks
    /\ observers_ = Ascending(configured)
    /\ \E maxp \in Prices, nprice \in BOOLEAN, nstock \in BOOLEAN :
          /\ h_old \in { WishlistItem(1, "A", FALSE, price, maxp, stock, FALSE, "", "",
                                       nprice, nstock) :
                            price \in Prices, stock \in BOOLEAN }
          /\ h_new \in { WishlistItem(1, "A", FALSE, price, maxp, stock, FALSE, "", "",
                                       nprice, nstock) :
                            price \in Prices, stock \in BOOLEAN }
    /\ h_out = NotCalled
    /\ h_log = <<>>
    /\ progress = NotPolled
    /\ put = NoPut
    /\ edits = 0
    /\ alerts = <<>>
    /\ wishlist = <<>>
    /\ price_history = <<>>
    /\ shop = [supported |-> {}, answers |-> {}]
    /\ delay_seconds_ = 8
    /\ faults = 0
    /\ requests = 0

NextDetect == CallDetect

SpecDetect == InitDetect /\ [][NextDetect]_vars

\* detectChanges called repeatedly on a pair of items and on the swapped
\* pair, while notifiers and an empty pointer are being offered.
InitPurity ==
    /\ InitFrames
    /\ configured \in SUBSET Sinks
    /\ offered = {}
    /\ observers_ = <<>>
    /\ \E nprice \in BOOLEAN, nstock \in BOOLEAN :
          /\ h_old \in { WishlistItem(1, "A", FALSE, price, 2, stock, FALSE, "", "",
                                       nprice, nstock) :
                            price \in Prices, stock \in BOOLEAN }
          /\ h_new \in { WishlistItem(1, "A", FALSE, price, 2, stock, FALSE, "", "",
                                       nprice, nstock) :
                            price \in Prices, stock \in BOOLEAN }
    /\ h_out = NotCalled
    /\ h_log = <<>>
    /\ progress = NotPolled
    /\ put = NoPut
    /\ edits = 0
    /\ alerts = <<>>
    /\ wishlist = <<>>
    /\ price_history = <<>>
    /\ shop = [supported |-> {}, answers |-> {}]
    /\ delay_seconds_ = 8
    /\ faults = 0
    /\ requests = 0

NextPurity ==
    \/ \E s \in Sinks \cup {nullptr} : addNotifier(s)
    \/ CallDetectLogged

SpecPurity == InitPurity /\ [][NextPurity]_vars

----------------------------------------------------------------------------
(* Properties *)

\* The caller is past the guard and has not yet cleared is_running_.
InBody(c) == pc[c] \in {"load", "set_total", "reset", "reap", "launch",
                        "throttle", "wait_all", "release"}

Tasks == UNION {{<<c, i>> : i \in DOMAIN task[c]} : c \in Callers}

TaskOf(ci) == task[ci[1]][ci[2]]

\* The statement the task has reached lies after updateWishlistItem.
PastUpdate(t) == t.pc \in {"returned", "counted", "done"}

\* C1: at most one runOnce call at a time is past the is_running_ guard and
\* inside the load / launch / wait body.
C1_RunExclusive == Cardinality({c \in Callers : InBody(c)}) <= 1

\* C1 witness: caller 1 is inside the body with a task running while the
\* concurrent call of caller 2 has been turned away with 0.
C1_Witness ==
    /\ requests = MaxCalls - 2
    /\ InBody(1)
    /\ \E i \in DOMAIN task[1] : InFlight(task[1][i])
    /\ pc[2] = "returned"
    /\ ret[2] = 0

\* C2: a runOnce call made while is_running_ is set returns 0, starts no task
\* and changes none of scrape_total_, scrape_processed_, the run's local
\* counters, its tasks and the flag, which stays true.
C2_BounceLeavesRunUntouched ==
    [][(requests' = requests - 1 /\ is_running_) =>
          /\ is_running_' = TRUE
          /\ UNCHANGED <<scrape_total_, scrape_processed_, task, futures,
                         wishlist_items, loop_i, processed_count,
                         success_count, error_count, wishlist, price_history>>
          /\ \E c \in Callers :
                /\ ~InBody(c)
                /\ pc' = [pc EXCEPT ![c] = "returned"]
                /\ ret' = [ret EXCEPT ![c] = 0]]_vars

\* C2 witness: the run of caller 1 has counted every item and is still
\* active; the call of caller 2 made during that run has returned 0.
C2_Witness ==
    /\ requests = MaxCalls - 2
    /\ pc[1] = "wait_all"
    /\ is_running_
    /\ processed_count[1] = Len(wishlist_items[1])
    /\ scrape_processed_ = scrape_total_
    /\ pc[2] = "returned"
    /\ ret[2] = 0

\* C3: once a run over N items has waited for its tasks, the value it is
\* going to return is N and success_count + error_count = N, and
\* scrape_processed_ is N until the guard is released.
C3_EveryItemCounted ==
    \A c \in Callers :
        /\ pc[c] \in {"release", "return"} =>
              /\ processed_count[c] = Len(wishlist_items[c])
              /\ success_count[c] + error_count[c] = Len(wishlist_items[c])
        /\ pc[c] = "release" => scrape_processed_ = Len(wishlist_items[c])

\* C4: the number of launched tasks that have not finished never exceeds
\* kConcurrency.
C4_InFlightBounded ==
    \A c \in Callers :
        Cardinality({i \in DOMAIN task[c] : InFlight(task[c][i])}) <= kConcurrency

\* C4 witness: kConcurrency tasks are running and the launch of the next
\* item is held back.
C4_Witness ==
    \E c \in Callers :
        /\ pc[c] = "launch"
        /\ loop_i[c] = kConcurrency + 1
        /\ Cardinality({i \in DOMAIN task[c] : InFlight(task[c][i])}) = kConcurrency

\* C5: when a sink throws from notify, the sinks registered after it are
\* still invoked for the event and the task goes on to save the item.
C5_SinkFailureIsolated ==
    \A ci \in Tasks :
        LET t == TaskOf(ci)
        IN  t.det.threw =>
                /\ Len(t.det.calls) = Len(observers_)
                /\ t.pc # "threw"

\* C6: a task whose save was rejected is counted as a failure, not as a
\* success.
C6_RejectedSaveCountsAsFailure ==
    \A ci \in Tasks :
        (TaskOf(ci).saved = "false" /\ TaskOf(ci).counted # "unset") =>
            TaskOf(ci).counted = "error"

\* C7: a task whose save was rejected leaves updateWishlistItem without
\* an addEntry call: no history entry for that item in that run.
C7_NoHistoryAfterRejectedSave ==
    \A ci \in Tasks :
        TaskOf(ci).saved = "false" =>
            /\ TaskOf(ci).hist = <<>>
            /\ PastUpdate(TaskOf(ci))

\* C7 witness: a task finished after its save was rejected.
C7_Witness ==
    \E ci \in Tasks : TaskOf(ci).saved = "false" /\ TaskOf(ci).pc = "done"

\* C8: a task makes an addEntry call only after its save succeeded, and once
\* it is past updateWishlistItem after a successful save it has made exactly
\* one, for its item id with the merged price and stock flag.
C8_OneHistoryAppendPerSave ==
    \A ci \in Tasks :
        LET t == TaskOf(ci)
        IN  /\ t.hist # <<>> => t.saved = "true"
            /\ (t.saved = "true" /\ PastUpdate(t)) =>
                  t.hist = <<[wishlist_id |-> t.item.id,
                              price |-> Merge(t.item, t.product).current_price,
                              in_stock |-> t.product.in_stock]>>

\* C8 witness: a finished task saved an item whose price and stock flag the
\* fetch left as they were, and made its one addEntry call.
C8_Witness ==
    \E ci \in Tasks :
        LET t == TaskOf(ci)
        IN  /\ t.pc = "done"
            /\ t.saved = "true"
            /\ Len(t.hist) = 1
            /\ t.updated.current_price = t.item.current_price
            /\ t.updated.in_stock = t.item.in_stock

\* C9: detectChanges builds and returns at most one ChangeEvent.
C9_AtMostOneEvent ==
    h_out.called > 0 =>
        /\ Len(h_out.out.found) <= 1
        /\ Len(h_out.out.changes) <= 1

\* C9 witness: a call whose arguments meet both the price-drop and the
\* back-in-stock test returned a single event.
C9_Witness ==
    /\ h_out.called > 0
    /\ IsPriceDrop(h_old, h_new)
    /\ IsBackInStock(h_old, h_new)
    /\ Len(h_out.out.changes) = 1

\* C10: a PriceChanged or OutOfStock classification, or none, calls notify
\* on no sink; a PriceDroppedBelowThreshold or BackInStock classification
\* calls notify on every registered sink with an event of that kind.
C10_FanoutSelective ==
    h_out.called > 0 =>
        IF h_out.out.found # <<>> /\ h_out.out.found[1].type \in Dispatched
        THEN h_out.out.calls =
                [k \in 1..Len(observers_) |->
                    [sink |-> observers_[k], type |-> h_out.out.found[1].type]]
        ELSE h_out.out.calls = <<>>

FetchFailed(t) == ~t.success /\ t.pc \in {"failed", "counted", "done"}

\* C13: a task whose url has no scraper, or whose fetch threw or returned
\* nothing, counts an error and no success, writes neither the wishlist row
\* nor the price history and makes no addEntry call.
C13_FetchFailureFrame ==
    /\ [](\A ci \in Tasks :
             LET t == TaskOf(ci)
             IN  FetchFailed(t) =>
                    /\ t.error_message # ""
                    /\ t.saved = "unset"
                    /\ t.hist = <<>>
                    /\ t.counted # "success"
                    /\ t.pc \in {"counted", "done"} => t.counted = "error")
    /\ [][\A c \in Callers : \A i \in DOMAIN task[c] :
             (/\ i \in DOMAIN task'[c]
              /\ task'[c][i] # task[c][i]
              /\ FetchFailed(task'[c][i])) =>
                 /\ wishlist' = wishlist
                 /\ price_history' = price_history
                 /\ success_count' = success_count
                 /\ task'[c][i].pc = "counted" =>
                        error_count'[c] = error_count[c] + 1]_vars

\* C13 witness: a run over two items, one without scraper and one whose
\* fetch threw, has counted two errors and left both tables as they were.
C13_Witness ==
    \E c \in Callers :
        /\ pc[c] = "release"
        /\ Len(wishlist_items[c]) = 2
        /\ \E i \in DOMAIN task[c] :
              task[c][i].pc = "done" /\ task[c][i].error_message = "No scraper available for URL"
        /\ \E i \in DOMAIN task[c] :
              task[c][i].pc = "done" /\ task[c][i].error_message = "Exception"
        /\ error_count[c] = 2
        /\ success_count[c] = 0
        /\ wishlist = [id \in 1..2 |-> SeedItem(id)]
        /\ price_history = [id \in 1..2 |-> <<>>]

\* One of the item-level failures: no scraper or a failed fetch, a rejected
\* save, a failed history append.
ItemFailure(t) == t.error_message # "" \/ t.saved = "false" \/ t.stored = "false"

\* C14: a task with an item-level failure ends without an exception, runOnce
\* throws only before any task exists, and when the run has waited for its
\* tasks every loaded item had its task launched and finished.
C14_ItemFailureIsolated ==
    \A c \in Callers :
        /\ pc[c] = "thrown" => (task[c] = <<>> /\ wishlist_items[c] = <<>>)
        /\ \A i \in DOMAIN task[c] :
              ItemFailure(task[c][i]) => task[c][i].pc # "threw"
        /\ pc[c] \in {"release", "return"} =>
              /\ DOMAIN task[c] = 1..Len(wishlist_items[c])
              /\ \A i \in DOMAIN task[c] :
                    /\ task[c][i].item = wishlist_items[c][i]
                    /\ Ready(task[c][i])
                    /\ ItemFailure(task[c][i]) => task[c][i].pc = "done"

\* C14 witness: the save of one item was rejected, the task of the other
\* item saved and appended its history entry, and runOnce is returning.
C14_Witness ==
    \E c \in Callers :
        /\ pc[c] = "return"
        /\ \E i \in DOMAIN task[c] : \E j \in DOMAIN task[c] :
              /\ task[c][i].saved = "false"
              /\ task[c][i].pc = "done"
              /\ task[c][j].saved = "true"
              /\ task[c][j].stored = "true"
              /\ task[c][j].pc = "done"

\* C15: the observers are exactly the sinks that were offered non-null and
\* configured, and no detectChanges call invokes a sink that was offered
\* unconfigured, or one that was not yet registered at the time of the call.
C15_RegisteredIffConfigured ==
    /\ observers_ = Ascending(offered \cap configured)
    /\ \A k \in 1..Len(observers_) : observers_[k] # nullptr
    /\ \A j \in 1..Len(h_log) : \A k \in 1..Len(h_log[j].calls) :
          /\ h_log[j].calls[k].sink \in configured
          /\ h_log[j].calls[k].sink \in SinksOf(h_log[j].obs)

\* C15 witness: every notifier and an empty pointer were offered, one
\* notifier was unconfigured, and a later call notified the other one.
C15_Witness ==
    /\ offered = Sinks \cup {nullptr}
    /\ \E s \in Sinks : s \notin configured
    /\ observers_ # <<>>
    /\ h_log # <<>>
    /\ h_log[Len(h_log)].obs = observers_
    /\ h_log[Len(h_log)].calls # <<>>

\* C16: a PriceDroppedBelowThreshold or BackInStock event built by
\* detectChanges is handed, within that call, to every registered observer
\* exactly once and in the order of registration.
C16_EverySinkOnceInOrder ==
    (/\ h_out.called > 0
     /\ h_out.out.found # <<>>
     /\ h_out.out.found[1].type \in Dispatched) =>
        /\ Len(h_out.out.calls) = Len(observers_)
        /\ \A k \in 1..Len(h_out.out.calls) :
              h_out.out.calls[k].sink = observers_[k]

\* C17: after each launch the run sleeps max(1000, floor(d * 1000 / 4))
\* milliseconds (1000 / 4 is whole, so the floor is d * 250) when the delay d is positive, whether or not a task has
\* finished, and does not sleep when d = 0; d = 8 gives 2000; a run whose
\* tasks all returned has processed every item.
C17_LaunchThrottle ==
    /\ [][\A c \in Callers :
             (pc[c] = "throttle" /\ pc'[c] # "throttle") =>
                 slept'[c] =
                     IF delay_seconds_ > 0
                     THEN (IF delay_seconds_ * 250 > 1000
                           THEN delay_seconds_ * 250 ELSE 1000)
                     ELSE 0]_vars
    /\ [](\A c \in Callers :
             (/\ pc[c] = "release"
              /\ \A i \in DOMAIN task[c] : task[c][i].pc = "done") =>
                 processed_count[c] = Len(wishlist_items[c]))

\* C18: when a run over a non-empty list has reached the statement that
\* clears is_running_, and after it, every item has a task and every task
\* has finished; while is_running_ is false nothing writes the wishlist, the
\* price history or scrape_processed_.
C18_NoReturnBeforeTasksFinish ==
    /\ [](\A c \in Callers :
             pc[c] \in {"release", "return"} =>
                 /\ DOMAIN task[c] = 1..Len(wishlist_items[c])
                 /\ \A i \in DOMAIN task[c] :
                       task[c][i].pc \in {"done", "threw"})
    /\ [][~is_running_ =>
             UNCHANGED <<wishlist, price_history, scrape_processed_>>]_vars

\* C18 witness: the guard was released by a run whose two tasks both wrote
\* the wishlist and the price history.
C18_Witness ==
    \E c \in Callers :
        /\ pc[c] = "return"
        /\ ~is_running_
        /\ Len(wishlist_items[c]) = 2
        /\ \A i \in DOMAIN task[c] :
              task[c][i].saved = "true" /\ task[c][i].stored = "true"

\* C19: a runOnce call that finds the wishlist empty starts no task, sets
\* is_running_ to false and returns 0, and a call made while is_running_ is
\* false is admitted to the load.
C19_EmptyListReleasesGuard ==
    [][\A c \in Callers :
          /\ (pc[c] = "load" /\ pc'[c] \notin {"load", "thrown"} /\ wishlist = <<>>) =>
                /\ is_running_' = FALSE
                /\ pc'[c] = "returned"
                /\ ret'[c] = 0
                /\ task'[c] = <<>>
                /\ futures'[c] = <<>>
                /\ UNCHANGED <<scrape_total_, scrape_processed_, wishlist, price_history>>
          /\ (requests' = requests - 1 /\ pc'[c] # pc[c] /\ ~is_running_) =>
                pc'[c] = "load"]_vars

\* C19 witness: the wishlist is empty, a first call has returned 0 and a
\* second call has passed the guard.
C19_Witness ==
    /\ wishlist = <<>>
    /\ requests = MaxCalls - 2
    /\ faults = MaxFaults
    /\ \E c \in Callers : pc[c] = "returned" /\ ret[c] = 0
    /\ \E c \in Callers : pc[c] = "load"

\* C20: the in-flight list is in launch order; the reap keeps, in order, the
\* tasks that have not finished; a launch made with kConcurrency tasks
\* still listed happens only once the earliest-launched of them has
\* finished, and removes that one.
C20_FifoWindow ==
    /\ [](\A c \in Callers : \A j \in 1..Len(futures[c]) : \A k \in 1..Len(futures[c]) :
             j < k => futures[c][j] < futures[c][k])
    /\ [][\A c \in Callers :
             /\ (pc[c] = "reap" /\ pc'[c] = "launch") =>
                   futures'[c] = SelectSeq(futures[c],
                                    LAMBDA i : task[c][i].pc \notin {"done", "threw"})
             /\ (pc[c] = "launch" /\ pc'[c] = "throttle") =>
                   IF Len(futures[c]) >= kConcurrency
                   THEN /\ task[c][futures[c][1]].pc \in {"done", "threw"}
                        /\ futures'[c] = Append(Tail(futures[c]), loop_i[c])
                   ELSE futures'[c] = Append(futures[c], loop_i[c])]_vars

\* C20 witness: the next launch is held back by the oldest listed task while
\* a task launched after it has already finished.
C20_Witness ==
    \E c \in Callers :
        /\ pc[c] = "launch"
        /\ Len(futures[c]) = kConcurrency
        /\ task[c][futures[c][1]].pc \notin {"done", "threw"}
        /\ \E k \in 2..Len(futures[c]) : task[c][futures[c][k]].pc = "done"

\* C21: the tasks of a run are those of the items before the loop index,
\* each started once on the item at its position in the loaded list, in list
\* order; a task fetches only if it has not fetched before and saves only if
\* it has not saved before, also after a failure.
C21_OneTaskPerItemNoRetry ==
    /\ [](\A c \in Callers : \A i \in DOMAIN task[c] :
             /\ (task[c][i].pc # "none") <=>
                    (i < loop_i[c] \/ (i = loop_i[c] /\ pc[c] = "throttle"))
             /\ task[c][i].pc # "none" => task[c][i].item = wishlist_items[c][i]
             /\ Len(task[c][i].hist) <= 1)
    /\ [][\A c \in Callers : \A i \in DOMAIN task[c] \cap DOMAIN task'[c] :
             /\ (task'[c][i].pc = "start" /\ task[c][i] # task'[c][i]) =>
                    /\ task[c][i].pc = "none"
                    /\ i = loop_i[c]
                    /\ loop_i'[c] = loop_i[c]
             /\ (task[c][i].pc = "start" /\ task[c][i] # task'[c][i]) =>
                    /\ task[c][i].error_message = ""
                    /\ ~task[c][i].success
                    /\ task'[c][i].pc # "start"
             /\ (task[c][i].pc = "detected" /\ task[c][i] # task'[c][i]) =>
                    /\ task[c][i].saved = "unset"
                    /\ task'[c][i].pc # "detected"
             /\ loop_i'[c] \in {loop_i[c], loop_i[c] + 1}]_vars

\* C21 witness: a run over more items than the concurrency limit has
\* finished; one fetch returned nothing and one save was rejected, and
\* neither was tried again.
C21_Witness ==
    \E c \in Callers :
        /\ pc[c] = "release"
        /\ Len(wishlist_items[c]) > kConcurrency
        /\ \E i \in DOMAIN task[c] :
              task[c][i].pc = "done" /\ task[c][i].error_message = "Scraping returned no data"
        /\ \E i \in DOMAIN task[c] :
              task[c][i].pc = "done" /\ task[c][i].saved = "false"

\* C22: a task whose history append failed had saved its item; the failed
\* append leaves the wishlist row as saved, for as long as the run lasts,
\* and the task is counted as a success.
C22_HistoryFailureKeepsSave ==
    /\ [](\A c \in Callers : \A i \in DOMAIN task[c] :
             LET t == task[c][i]
             IN  t.stored = "false" =>
                    /\ t.saved = "true"
                    /\ t.pc \in {"returned", "counted", "done"}
                    /\ t.counted # "error"
                    /\ t.pc \in {"counted", "done"} => t.counted = "success"
                    /\ InBody(c) => wishlist[t.item.id] = t.updated)
    /\ [][\A c \in Callers : \A i \in DOMAIN task[c] \cap DOMAIN task'[c] :
             (task[c][i].stored = "unset" /\ task'[c][i].stored = "false") =>
                 /\ wishlist' = wishlist
                 /\ price_history' = price_history]_vars

\* C22 witness: a finished task changed the stored price of its item, its
\* history append failed, and it was counted as a success.
C22_Witness ==
    \E c \in Callers : \E i \in DOMAIN task[c] :
        LET t == task[c][i]
        IN  /\ pc[c] = "release"
            /\ t.pc = "done"
            /\ t.stored = "false"
            /\ t.updated.current_price # t.item.current_price
            /\ wishlist[t.item.id].current_price = t.updated.current_price
            /\ price_history[t.item.id] = <<>>
            /\ success_count[c] >= 1

\* C23: the item a task builds from its copy and the fetched product has
\* the product's title iff the item is not title-locked and that title is
\* non-empty, the product's price iff it exceeds one cent, the product's
\* stock flag, format flag and image url, and the copy's threshold, notify
\* flags, lock, id and url; a successful save stores exactly these values.
C23_MergeReference ==
    \A c \in Callers : \A i \in DOMAIN task[c] :
        LET t == task[c][i]
            o == t.item
            p == t.product
            u == t.updated
        IN  (t.success /\ t.pc \in {"detected", "saved", "returned", "counted", "done"}) =>
               /\ u.title = IF ~o.title_locked /\ p.title # "" THEN p.title ELSE o.title
               /\ u.current_price = IF p.price > 1 THEN p.price ELSE o.current_price
               /\ u.in_stock = p.in_stock
               /\ u.is_uhd_4k = p.is_uhd_4k
               /\ u.image_url = p.image_url
               /\ u.desired_max_price = o.desired_max_price
               /\ u.notify_on_price_drop = o.notify_on_price_drop
               /\ u.notify_on_stock = o.notify_on_stock
               /\ u.title_locked = o.title_locked
               /\ u.id = o.id
               /\ u.url = o.url
               /\ (t.saved = "true" /\ InBody(c)) => wishlist[o.id] = u

\* C23 witness: a title-locked item was saved after a fetch that reported it
\* in stock at price 0 with another title: title and price are the old ones.
C23_Witness ==
    \E c \in Callers : \E i \in DOMAIN task[c] :
        LET t == task[c][i]
        IN  /\ t.pc = "done"
            /\ t.saved = "true"
            /\ t.item.title_locked
            /\ t.product.title = "B"
            /\ t.product.in_stock
            /\ t.product.price = 0
            /\ ~t.item.in_stock
            /\ wishlist[1].title = "A"
            /\ wishlist[1].current_price = t.item.current_price
            /\ wishlist[1].in_stock

\* The runOnce call of caller c has come to its return statement after
\* clearing is_running_, or has returned 0 for an empty list.
Completed(c) == pc[c] = "return" \/ (pc[c] = "returned" /\ wishlist = <<>>)

\* C24: a runOnce call that has passed the guard eventually comes to its
\* return with every task finished, clearing is_running_ on the way; every
\* future it waits on is listed and belongs to a launched task.
C24_RunTerminates ==
    /\ \A c \in Callers : (pc[c] = "load") ~> Completed(c)
    /\ [](\A c \in Callers :
             /\ \A k \in 1..Len(futures[c]) :
                   /\ futures[c][k] \in DOMAIN task[c]
                   /\ task[c][futures[c][k]].pc # "none"
             /\ pc[c] = "return" =>
                   \A i \in DOMAIN task[c] : task[c][i].pc \in {"done", "threw"})
    /\ [][\A c \in Callers :
             (pc[c] # "return" /\ pc'[c] = "return") => ~is_running_']_vars

\* C25: whenever no runOnce call is between the guard and the statement
\* that clears is_running_, whether the calls made so far returned or threw,
\* is_running_ is false, so that the next call is admitted.
C25_GuardReleasedOnEveryExit ==
    (\A c \in Callers : ~InBody(c)) => ~is_running_

\* C26: every value returned by getScrapeProgress has
\* 0 <= processed <= total.
C26_ProgressWithinTotal ==
    progress.pc = "idle" =>
        (0 <= progress.processed /\ progress.processed <= progress.total)

\* C27: a task whose save was rejected has handed no notification to any
\* sink.
C27_NotifyOnlyIfPersisted ==
    \A c \in Callers : \A i \in DOMAIN task[c] :
        task[c][i].saved = "false" => task[c][i].det.calls = <<>>

\* C28: once the user's PUT request is answered and no run is active, the
\* stored threshold, notify flags and (locked) title of the item are the
\* ones the request wrote.
C28_UserEditSurvivesRun ==
    (/\ put.pc = "idle"
     /\ put.id \in DOMAIN wishlist
     /\ \A c \in Callers : ~InBody(c)) =>
        /\ wishlist[put.id].desired_max_price = put.item.desired_max_price
        /\ wishlist[put.id].notify_on_price_drop = put.item.notify_on_price_drop
        /\ wishlist[put.id].notify_on_stock = put.item.notify_on_stock
        /\ wishlist[put.id].title = put.item.title

\* C29: an item that was stored above its threshold and is now stored in
\* stock at or below it, with notify-on-price-drop set, has had a
\* PriceDroppedBelowThreshold event handed to notifyObservers.
C29_DropAlertNotLost ==
    \A id \in DOMAIN wishlist :
        (/\ wishlist[id].notify_on_price_drop
         /\ wishlist[id].in_stock
         /\ wishlist[id].current_price <= wishlist[id].desired_max_price) =>
            \E k \in 1..Len(alerts[id]) : alerts[id][k] \in {"drop", "found"}

\* C30: between two PriceDroppedBelowThreshold notifications for an item
\* there is a fetch of that item whose price was above the threshold.
C30_NoRepeatedDropAlert ==
    \A id \in DOMAIN alerts :
        \A j, k \in 1..Len(alerts[id]) :
            (j < k /\ alerts[id][j] = "drop" /\ alerts[id][k] = "drop") =>
                \E m \in (j + 1)..(k - 1) : alerts[id][m] = "above"

====
